---- MODULE Spec2Model ----
(***************************************************************************)
(* Model of the Event Generator HTTP handler                               *)
(* (src/EventGenerator/__init__.py): the connectivity prober, the payload  *)
(* builder, the event sink client, the renderer's inputs and the request   *)
(* handler main, one request at a time.                                    *)
(*                                                                         *)
(* Python values are represented as follows:                               *)
(*   str            a TLA+ string ("" is the empty, falsy string)          *)
(*   Optional[T]    None = <<>>, a present value v = <<v>>                 *)
(*   dict           a record                                               *)
(*   a call result  Return(v) or Raise(e)                                  *)
(* The accented letters of the source's message strings are written        *)
(* without their accents.                                                  *)
(***************************************************************************)
EXTENDS Integers, Sequences, FiniteSets, TLC

VARIABLES
    DT_API_URL,            \* module global, line 24
    DT_API_TOKEN,          \* module global, line 25 (Optional[str])
    pc,                    \* position of the handler in the current request
    req,                   \* req.params.get("type") of the current request
    dt_connection_status,  \* local of main, line 189
    evt,                   \* local of main, line 192
    message,               \* local of main, line 193
    status_code,           \* local of main, line 194
    status_str,            \* local of main, line 195
    payload_to_show,       \* local of main, line 196
    ex,                    \* the exception caught at line 238 / escaping main
    response,              \* the HttpResponse main returned (Optional)
    outcome,               \* the arguments main handed to render_page (Optional)
    log                    \* calls made while handling this request, in order

vars == << DT_API_URL, DT_API_TOKEN, pc, req, dt_connection_status, evt,
           message, status_code, status_str, payload_to_show, ex, response,
           outcome, log >>

-----------------------------------------------------------------------------
(* Bounds of the model *)

\* the clock read by build_payload yields a millisecond value in 0..MaxTs
MaxTs == 1
\* the random source yields a draw in 0..MaxRand (99 covers randint(1, 100))
MaxRand == 99

-----------------------------------------------------------------------------
(* Python helpers *)

None == << >>
Some(v) == << v >>

\* the result of a call: it returns a value or raises an exception
Return(v) == [kind |-> "return", value |-> v]
Raise(e) == [kind |-> "raise", exc |-> e]
\* the same, with the outbound calls made on the way
Returned(v, calls) == [kind |-> "return", value |-> v, calls |-> calls]
Raised(e, calls) == [kind |-> "raise", exc |-> e, calls |-> calls]

\* str.startswith
startswith(s, prefix) ==
    /\ Len(s) >= Len(prefix)
    /\ SubSeq(s, 1, Len(prefix)) = prefix

\* str.rstrip("/")
RECURSIVE rstrip(_)
rstrip(s) ==
    IF Len(s) > 0 /\ SubSeq(s, Len(s), Len(s)) = "/"
    THEN rstrip(SubSeq(s, 1, Len(s) - 1))
    ELSE s

\* os.getenv(name, default) on an Optional environment value
getenv(value, default) == IF value = None THEN default ELSE value[1]

\* a builder that leaves **common out of the payload
Merge_DropCommon(r, common) == r

\* {**r, **common}: later keys win
Merge(r, common) ==
    [k \in (DOMAIN r) \cup (DOMAIN common) |->
        IF k \in DOMAIN common THEN common[k] ELSE r[k]]

\* random.randint(a, b) and random.choice(seq) on the draw u of the random source
randint(a, b, u) == a + (u % (b - a + 1))
choice(seq, u) == seq[1 + (u % Len(seq))]

\* an entry of the call log: the function called and what the call did
Call(name, result) == [call |-> name, result |-> result]
\* the positions of the calls of c in the log l, and their number
Calls(l, c) == {i \in 1..Len(l) : l[i].call = c}
Count(l, c) == Cardinality(Calls(l, c))

-----------------------------------------------------------------------------
(* The environment: configuration, requests, outcomes of outbound calls *)

\* values of the environment variable DT_API_URL (None: not set)
EnvUrls == {None, Some(""), Some("/"), Some("https://dt"), Some("https://dt/"),
            Some("https://dt//")}
\* values of the environment variable DT_API_TOKEN (None: not set)
EnvTokens == {None, Some(""), Some("tok")}

\* exceptions that derive from requests.exceptions.RequestException
RequestException ==
    {"Timeout", "ConnectionError", "ChunkedEncodingError", "HTTPError"}
\* exceptions that do not
OtherException == {"RuntimeError"}

\* what requests.get / requests.post can do: a response or an exception
Response(code) == [kind |-> "response", status_code |-> code]
ProbeStatusCodes == {200, 401, 403, 404, 405, 500}
PostStatusCodes == {200, 201, 204, 304, 400, 401, 500}
NetworkFailures == {"Timeout", "ConnectionError", "ChunkedEncodingError"}
GetOutcomes ==
    {Response(c) : c \in ProbeStatusCodes}
        \cup {Raise(e) : e \in NetworkFailures \cup OtherException}
PostOutcomes ==
    {Response(c) : c \in PostStatusCodes}
        \cup {Raise(e) : e \in NetworkFailures \cup OtherException}

\* what a telemetry SDK call can do
SdkOutcomes == {Return(None)} \cup {Raise(e) : e \in OtherException}

-----------------------------------------------------------------------------
(* Module constants *)

EVENT_TYPES == <<
    <<"resource", "API - Resource Metric">>,
    <<"trace", "API - Trace + Span Annotation">>,
    <<"http", "API - HTTP Call Annotation">>,
    <<"db", "API - DB Call Annotation">>,
    <<"azure", "API - Azure Service Call Annotation">>,
    <<"error", "API - Error / Exception Annotation">>,
    <<"warning", "API - Warning Annotation">>,
    <<"otel_trace", "OTel - Custom Trace">>,
    <<"otel_metric", "OTel - Custom Metric (Counter)">>,
    <<"sdk_trace", "SDK - OneAgent Custom Trace">> >>

\* the closed set of event type codes
EventTypeCode == {EVENT_TYPES[i][1] : i \in 1..Len(EVENT_TYPES)}

\* values of the query parameter "type" (None: the parameter is absent)
TypeParams ==
    {None, Some("")}
        \cup {Some(c) : c \in EventTypeCode}
        \cup {Some("bogus"), Some("otel_bogus"), Some("sdk_x"), Some("otel"),
              Some("otel_"), Some("Warning")}

-----------------------------------------------------------------------------
\* a prober that rejects the configuration only when both values are missing
check_dynatrace_connection_And(get) ==
    IF DT_API_URL = "" /\ (DT_API_TOKEN = None \/ DT_API_TOKEN = Some(""))
    THEN Returned(<<FALSE, "Error: Las variables de entorno para la API de Eventos (DT_API_URL, DT_API_TOKEN) no estan configuradas.">>,
                  << >>)
    ELSE IF get.kind = "response"
    THEN IF get.status_code = 405
         THEN Returned(<<TRUE, "API de Eventos: Conexion y autenticacion verificadas.">>,
                       <<"requests.get">>)
         ELSE IF get.status_code = 401
         THEN Returned(<<FALSE, "API de Eventos: Error de autenticacion (401).">>,
                       <<"requests.get">>)
         ELSE Returned(<<FALSE, "API de Eventos: Respuesta inesperada "
                                   \o ToString(get.status_code) \o ".">>,
                       <<"requests.get">>)
    ELSE IF get.exc \in RequestException
    THEN Returned(<<FALSE, "API de Eventos: Error de conexion a "
                              \o DT_API_URL \o ".">>,
                  <<"requests.get">>)
    ELSE Raised(get.exc, <<"requests.get">>)

(* check_dynatrace_connection, lines 85-97.  get is what requests.get does  *)
(* if it is called.  The result is Return(ConnectivityStatus) or Raise(e),  *)
(* with calls, the outbound calls the function made.                        *)

check_dynatrace_connection(get) ==
    IF DT_API_URL = "" \/ DT_API_TOKEN = None \/ DT_API_TOKEN = Some("")
    THEN Returned(<<FALSE, "Error: Las variables de entorno para la API de Eventos (DT_API_URL, DT_API_TOKEN) no estan configuradas.">>,
                  << >>)
    ELSE IF get.kind = "response"
    THEN IF get.status_code = 405
         THEN Returned(<<TRUE, "API de Eventos: Conexion y autenticacion verificadas.">>,
                       <<"requests.get">>)
         ELSE IF get.status_code = 401
         THEN Returned(<<FALSE, "API de Eventos: Error de autenticacion (401).">>,
                       <<"requests.get">>)
         ELSE Returned(<<FALSE, "API de Eventos: Respuesta inesperada "
                                   \o ToString(get.status_code) \o ".">>,
                       <<"requests.get">>)
    ELSE IF get.exc \in RequestException
    THEN Returned(<<FALSE, "API de Eventos: Error de conexion a "
                              \o DT_API_URL \o ".">>,
                  <<"requests.get">>)
    ELSE Raised(get.exc, <<"requests.get">>)

(* build_payload, lines 99-118.  now is the clock reading in milliseconds,  *)
(* u the draw of the random source.  The result is Optional[dict].          *)

build_payload(evt_code, now, u) ==
    LET ts == now
        common == [timestamp |-> ts, source |-> "EventGenerator3000",
                   detect |-> FALSE]
    IN  IF evt_code = "resource"
        THEN Some(Merge([eventType |-> "RESOURCE_EVENT",
                         entitySelector |-> "type(HOST),entityName(\"host123\")",
                         property |-> "CPU_USAGE",
                         value |-> randint(1, 100, u)], common))
        ELSE IF evt_code = "trace"
        THEN Some(Merge([eventType |-> "STATE_EVENT",
                         entitySelector |-> "type(SERVICE),entityName(\"ServiceXYZ\")",
                         state |-> "TRACE_SPAN",
                         annotationType |-> "TRACE"], common))
        ELSE IF evt_code = "http"
        THEN LET status == choice(<<200, 400, 500>>, u)
             IN  Some(Merge([eventType |-> "CUSTOM_ANNOTATION",
                             annotationType |-> "HTTP_CALL",
                             annotationDescription |->
                                 "HTTP " \o ToString(status)
                                     \o " GET https://example.com/api",
                             customProperties |->
                                 [statusCode |-> status, method |-> "GET"]],
                            common))
        ELSE IF evt_code = "db"
        THEN LET st == choice(<<"SUCCESS", "FAILURE">>, u)
             IN  Some(Merge([eventType |-> "CUSTOM_ANNOTATION",
                             annotationType |-> "DB_CALL",
                             annotationDescription |->
                                 "Simulated DB call: status " \o st,
                             customProperties |->
                                 [database |-> "MySQL", status |-> st]],
                            common))
        ELSE IF evt_code = "azure"
        THEN LET st == choice(<<"OK", "ERROR">>, u)
             IN  Some(Merge([eventType |-> "CUSTOM_ANNOTATION",
                             annotationType |-> "AZURE_SERVICE",
                             annotationDescription |->
                                 "Simulated Azure BlobStorage call: " \o st,
                             customProperties |->
                                 [service |-> "BlobStorage", status |-> st]],
                            common))
        ELSE IF evt_code = "error"
        THEN Some(Merge([eventType |-> "CUSTOM_ANNOTATION",
                         annotationType |-> "ERROR",
                         annotationDescription |->
                             "Simulated exception occurred"], common))
        ELSE IF evt_code = "warning"
        THEN Some(Merge([eventType |-> "CUSTOM_ANNOTATION",
                         annotationType |-> "WARNING",
                         annotationDescription |-> "Simulated warning"],
                        common))
        ELSE None

(* send_event, lines 121-130.  post is what requests.post does.  The result *)
(* is Return(bool) or Raise(e), with the outbound calls made.               *)

\* Response.raise_for_status raises HTTPError on a 4xx or 5xx status
raise_for_status(resp) ==
    IF 400 <= resp.status_code /\ resp.status_code < 600
    THEN Raise("HTTPError")
    ELSE Return(None)

\* a sink client that accepts every status raise_for_status lets through
send_event_AnyOk(payload, post) ==
    LET raised == IF post.kind = "raise" THEN Some(post.exc)
                  ELSE IF raise_for_status(post).kind = "raise"
                  THEN Some(raise_for_status(post).exc)
                  ELSE None
    IN  IF raised = None
        THEN Returned(TRUE, <<"requests.post">>)
        ELSE IF raised[1] \in RequestException
        THEN Returned(FALSE, <<"requests.post">>)
        ELSE Raised(raised[1], <<"requests.post">>)

send_event(payload, post) ==
    LET raised == IF post.kind = "raise" THEN Some(post.exc)
                  ELSE IF raise_for_status(post).kind = "raise"
                  THEN Some(raise_for_status(post).exc)
                  ELSE None
    IN  IF raised = None
        THEN Returned(post.status_code = 200, <<"requests.post">>)
        ELSE IF raised[1] \in RequestException
        THEN Returned(FALSE, <<"requests.post">>)
        ELSE Raised(raised[1], <<"requests.post">>)

(* render_page, lines 133-183: the parts of the page that depend on the     *)
(* arguments.  selected, message, status and payload are Optional.          *)

\* truth value of an Optional[str] and of an Optional[dict]
TruthyStr(opt) == opt # None /\ opt[1] # ""
TruthyDict(opt) == opt # None /\ DOMAIN opt[1] # {}

render_page(conn, selected, msg, status, payload) ==
    LET is_connected == conn[1]
        conn_message == conn[2]
    IN  [options |-> [i \in 1..Len(EVENT_TYPES) |->
                        [code |-> EVENT_TYPES[i][1],
                         label |-> EVENT_TYPES[i][2],
                         selected |-> (Some(EVENT_TYPES[i][1]) = selected)]],
         conn_status_class |->
            IF is_connected THEN "status-ok" ELSE "status-fail",
         conn_message |-> conn_message,
         feedback |->
            IF TruthyStr(msg)
            THEN Some([status_class |->
                           IF status = Some("success")
                           THEN "status-success" ELSE "status-error",
                       message |-> msg[1]])
            ELSE None,
         payload_html |-> IF TruthyDict(payload) THEN payload ELSE None]

\* status code of a func.HttpResponse built without status_code (line 236)
DefaultStatusCode == 200

\* func.HttpResponse(body, mimetype="text/html", status_code=...)
HttpResponse(body, code) ==
    [body |-> body, mimetype |-> "text/html", status_code |-> code]

-----------------------------------------------------------------------------
(* The request handler main, lines 187-243, one request at a time.          *)
(* pc: "idle"     no request yet                                            *)
(*     "probe"    about to run line 189                                     *)
(*     "route"    about to run lines 192-219                                *)
(*     "generate" about to call a telemetry generator (202, 205, 211)       *)
(*     "build"    about to run line 221                                     *)
(*     "send"     about to call send_event, line 222                        *)
(*     "render"   about to run lines 229-232 or line 236                    *)
(*     "except"   in the handler of lines 238-243                           *)
(*     "returned" main returned response                                    *)
(*     "raised"   main raised ex                                            *)

\* locals of main before line 193-196 assign them
NoStatus == <<FALSE, "">>

Init ==
    /\ DT_API_URL \in {rstrip(getenv(e, "")) : e \in EnvUrls}
    /\ DT_API_TOKEN \in EnvTokens
    /\ pc = "idle"
    /\ req = None
    /\ dt_connection_status = NoStatus
    /\ evt = None
    /\ message = ""
    /\ status_code = 200
    /\ status_str = "success"
    /\ payload_to_show = None
    /\ ex = None
    /\ response = None
    /\ outcome = None
    /\ log = << >>

\* the host invokes main with a request whose "type" parameter is t
Request ==
    /\ pc \in {"idle", "returned", "raised"}
    /\ \E t \in TypeParams : req' = t
    /\ pc' = "probe"
    /\ dt_connection_status' = NoStatus
    /\ evt' = None
    /\ message' = ""
    /\ status_code' = 200
    /\ status_str' = "success"
    /\ payload_to_show' = None
    /\ ex' = None
    /\ response' = None
    /\ outcome' = None
    /\ log' = << >>
    /\ UNCHANGED << DT_API_URL, DT_API_TOKEN >>

\* line 189, outside the try block
Probe ==
    /\ pc = "probe"
    /\ \E get \in GetOutcomes :
         LET r == check_dynatrace_connection(get)
         IN  /\ log' = log
                        \o << Call("check_dynatrace_connection",
                                    IF r.kind = "return" THEN Return(r.value)
                                    ELSE Raise(r.exc)) >>
                        \o [i \in 1..Len(r.calls) |-> Call(r.calls[i], get)]
             /\ IF r.kind = "return"
                THEN /\ dt_connection_status' = r.value
                     /\ pc' = "route"
                     /\ ex' = ex
                ELSE /\ dt_connection_status' = dt_connection_status
                     /\ pc' = "raised"
                     /\ ex' = Some(r.exc)
    /\ UNCHANGED << DT_API_URL, DT_API_TOKEN, req, evt, message, status_code,
                    status_str, payload_to_show, response, outcome >>

\* a handler that builds and sends whatever the probe reported
route_NoBlock(e, conn) ==
    IF TruthyStr(e)
    THEN IF startswith(e[1], "otel_")
         THEN [pc |-> IF e[1] \in {"otel_trace", "otel_metric"}
                      THEN "generate" ELSE "render",
               message |-> "", status_str |-> "success", status_code |-> 200]
         ELSE IF startswith(e[1], "sdk_")
         THEN [pc |-> IF e[1] = "sdk_trace" THEN "generate" ELSE "render",
               message |-> "", status_str |-> "success", status_code |-> 200]
         ELSE [pc |-> "build",
               message |-> "", status_str |-> "success", status_code |-> 200]
    ELSE [pc |-> "render",
          message |-> "", status_str |-> "success", status_code |-> 200]

\* lines 198-220: the branch taken for the parameter value e (Optional) under
\* the connectivity status conn, and the locals it leaves
route(e, conn) ==
    IF TruthyStr(e)
    THEN IF startswith(e[1], "otel_")
         THEN [pc |-> IF e[1] \in {"otel_trace", "otel_metric"}
                      THEN "generate" ELSE "render",
               message |-> "", status_str |-> "success", status_code |-> 200]
         ELSE IF startswith(e[1], "sdk_")
         THEN [pc |-> IF e[1] = "sdk_trace" THEN "generate" ELSE "render",
               message |-> "", status_str |-> "success", status_code |-> 200]
         ELSE IF ~ conn[1]
         THEN [pc |-> "render",
               message |-> "No se puede generar el evento de API porque no hay conexion con Dynatrace.",
               status_str |-> "error", status_code |-> 500]
         ELSE [pc |-> "build",
               message |-> "", status_str |-> "success", status_code |-> 200]
    ELSE [pc |-> "render",
          message |-> "", status_str |-> "success", status_code |-> 200]

\* lines 192-220: read the parameter, set the defaults, choose the branch
Route ==
    /\ pc = "route"
    /\ evt' = req
    /\ payload_to_show' = None
    /\ pc' = route(req, dt_connection_status).pc
    /\ message' = route(req, dt_connection_status).message
    /\ status_str' = route(req, dt_connection_status).status_str
    /\ status_code' = route(req, dt_connection_status).status_code
    /\ UNCHANGED << DT_API_URL, DT_API_TOKEN, req, dt_connection_status, ex,
                    response, outcome, log >>

\* lines 201-212: the telemetry generator of the selected code, then its message
Generate ==
    /\ pc = "generate"
    /\ \E sdk \in SdkOutcomes :
         /\ log' = log \o << Call(IF evt[1] = "otel_trace"
                                   THEN "generate_otel_trace"
                                   ELSE IF evt[1] = "otel_metric"
                                   THEN "generate_otel_metric"
                                   ELSE "generate_sdk_trace", sdk) >>
         /\ IF sdk.kind = "return"
            THEN /\ message' =
                        IF evt[1] = "otel_trace"
                        THEN "Traza OpenTelemetry generada con exito. Revisa tu entorno de Dynatrace."
                        ELSE IF evt[1] = "otel_metric"
                        THEN "Metrica OpenTelemetry generada con exito. Revisa tu entorno de Dynatrace."
                        ELSE "Traza de OneAgent SDK generada con exito. Funcionara si un OneAgent esta activo en el host."
                 /\ pc' = "render"
                 /\ ex' = ex
            ELSE /\ message' = message
                 /\ pc' = "except"
                 /\ ex' = Some(sdk.exc)
    /\ UNCHANGED << DT_API_URL, DT_API_TOKEN, req, dt_connection_status, evt,
                    status_code, status_str, payload_to_show, response,
                    outcome >>

\* line 221, and lines 224-227 when the payload is falsy
Build ==
    /\ pc = "build"
    /\ \E now \in 0..MaxTs, u \in 0..MaxRand :
         payload_to_show' = build_payload(evt[1], now, u)
    /\ log' = log \o << Call("build_payload", Return(payload_to_show')) >>
    /\ IF TruthyDict(payload_to_show')
       THEN /\ pc' = "send"
            /\ UNCHANGED << message, status_str, status_code >>
       ELSE /\ pc' = "render"
            /\ message' = "Error al enviar el evento de API."
            /\ status_str' = "error"
            /\ status_code' = 500
    /\ UNCHANGED << DT_API_URL, DT_API_TOKEN, req, dt_connection_status, evt,
                    ex, response, outcome >>

\* a handler that reports a failed delivery without the error status
Send_ErrorKeeps200 ==
    /\ pc = "send"
    /\ \E post \in PostOutcomes :
         LET r == send_event(payload_to_show[1], post)
         IN  /\ log' = log
                        \o << Call("send_event",
                                    IF r.kind = "return" THEN Return(r.value)
                                    ELSE Raise(r.exc)) >>
                        \o [i \in 1..Len(r.calls) |-> Call(r.calls[i], post)]
             /\ IF r.kind = "raise"
                THEN /\ pc' = "except"
                     /\ ex' = Some(r.exc)
                     /\ UNCHANGED << message, status_str, status_code >>
                ELSE IF r.value
                THEN /\ pc' = "render"
                     /\ ex' = ex
                     /\ message' = "Evento de API enviado con exito!"
                     /\ UNCHANGED << status_str, status_code >>
                ELSE /\ pc' = "render"
                     /\ ex' = ex
                     /\ message' = "Error al enviar el evento de API."
                     /\ UNCHANGED << status_str, status_code >>
    /\ UNCHANGED << DT_API_URL, DT_API_TOKEN, req, dt_connection_status, evt,
                    payload_to_show, response, outcome >>

\* lines 222-227: the delivery and the message it selects
Send ==
    /\ pc = "send"
    /\ \E post \in PostOutcomes :
         LET r == send_event(payload_to_show[1], post)
         IN  /\ log' = log
                        \o << Call("send_event",
                                    IF r.kind = "return" THEN Return(r.value)
                                    ELSE Raise(r.exc)) >>
                        \o [i \in 1..Len(r.calls) |-> Call(r.calls[i], post)]
             /\ IF r.kind = "raise"
                THEN /\ pc' = "except"
                     /\ ex' = Some(r.exc)
                     /\ UNCHANGED << message, status_str, status_code >>
                ELSE IF r.value
                THEN /\ pc' = "render"
                     /\ ex' = ex
                     /\ message' = "Evento de API enviado con exito!"
                     /\ UNCHANGED << status_str, status_code >>
                ELSE /\ pc' = "render"
                     /\ ex' = ex
                     /\ message' = "Error al enviar el evento de API."
                     /\ status_str' = "error"
                     /\ status_code' = 500
    /\ UNCHANGED << DT_API_URL, DT_API_TOKEN, req, dt_connection_status, evt,
                    payload_to_show, response, outcome >>

\* the arguments of a render_page call, as the renderer receives them
RenderArgs(selected, msg, status, payload) ==
    [selected |-> selected, message |-> msg, status |-> status,
     payload |-> payload]

\* lines 229-232 (a type was selected) or line 236 (initial page)
Render ==
    /\ pc = "render"
    /\ IF TruthyStr(evt)
       THEN /\ outcome' = Some(RenderArgs(evt, Some(message), Some(status_str),
                                          payload_to_show))
            /\ response' = Some(HttpResponse(
                                render_page(dt_connection_status, evt,
                                            Some(message), Some(status_str),
                                            payload_to_show),
                                status_code))
       ELSE /\ outcome' = Some(RenderArgs(None, None, None, None))
            /\ response' = Some(HttpResponse(
                                render_page(dt_connection_status, None, None,
                                            None, None),
                                DefaultStatusCode))
    /\ log' = log \o << Call("render_page", Return(outcome'[1])) >>
    /\ pc' = "returned"
    /\ UNCHANGED << DT_API_URL, DT_API_TOKEN, req, dt_connection_status, evt,
                    message, status_code, status_str, payload_to_show, ex >>

\* an exception handler that probes the sink again before it renders
Except_Reprobe ==
    /\ pc = "except"
    /\ outcome' = Some(RenderArgs(None,
                                  Some("Ha ocurrido una excepcion: " \o ex[1]),
                                  Some("error"), None))
    /\ response' = Some(HttpResponse(
                        render_page(dt_connection_status, None,
                                    Some("Ha ocurrido una excepcion: " \o ex[1]),
                                    Some("error"), None),
                        500))
    /\ log' = log \o << Call("check_dynatrace_connection",
                             Return(dt_connection_status)),
                        Call("render_page", Return(outcome'[1])) >>
    /\ pc' = "returned"
    /\ UNCHANGED << DT_API_URL, DT_API_TOKEN, req, dt_connection_status, evt,
                    message, status_code, status_str, payload_to_show, ex >>

\* an exception handler that still passes the built payload to the renderer
Except_ShowsPayload ==
    /\ pc = "except"
    /\ outcome' = Some(RenderArgs(None,
                                  Some("Ha ocurrido una excepcion: " \o ex[1]),
                                  Some("error"), payload_to_show))
    /\ response' = Some(HttpResponse(
                        render_page(dt_connection_status, None,
                                    Some("Ha ocurrido una excepcion: " \o ex[1]),
                                    Some("error"), payload_to_show),
                        500))
    /\ log' = log \o << Call("render_page", Return(outcome'[1])) >>
    /\ pc' = "returned"
    /\ UNCHANGED << DT_API_URL, DT_API_TOKEN, req, dt_connection_status, evt,
                    message, status_code, status_str, payload_to_show, ex >>

\* lines 238-243: the handler of the try block
Except ==
    /\ pc = "except"
    /\ outcome' = Some(RenderArgs(None,
                                  Some("Ha ocurrido una excepcion: " \o ex[1]),
                                  Some("error"), None))
    /\ response' = Some(HttpResponse(
                        render_page(dt_connection_status, None,
                                    Some("Ha ocurrido una excepcion: " \o ex[1]),
                                    Some("error"), None),
                        500))
    /\ log' = log \o << Call("render_page", Return(outcome'[1])) >>
    /\ pc' = "returned"
    /\ UNCHANGED << DT_API_URL, DT_API_TOKEN, req, dt_connection_status, evt,
                    message, status_code, status_str, payload_to_show, ex >>

Next ==
    \/ Request
    \/ Probe
    \/ Route
    \/ Generate
    \/ Build
    \/ Send
    \/ Render
    \/ Except

Spec == Init /\ [][Next]_vars

TypeOK ==
    /\ pc \in {"idle", "probe", "route", "generate", "build", "send",
               "render", "except", "returned", "raised"}
    /\ req \in TypeParams
    /\ status_code \in {200, 500}
    /\ status_str \in {"success", "error"}

-----------------------------------------------------------------------------
(* build_payload on its own: every code is passed to it directly, as a unit *)
(* test of lines 99-118 does, with every clock reading and random draw.     *)

\* the codes passed to build_payload
BuilderCodes == EventTypeCode \cup {"", "bogus", "otel_bogus", "sdk_x"}

InitBuilder ==
    /\ DT_API_URL \in {rstrip(getenv(e, "")) : e \in EnvUrls}
    /\ DT_API_TOKEN \in EnvTokens
    /\ pc = "call"
    /\ evt \in {Some(c) : c \in BuilderCodes}
    /\ req = None
    /\ dt_connection_status = NoStatus
    /\ message = ""
    /\ status_code = 200
    /\ status_str = "success"
    /\ payload_to_show = None
    /\ ex = None
    /\ response = None
    /\ outcome = None
    /\ log = << >>

\* build_payload(evt) is called and returns
CallBuildPayload ==
    /\ pc = "call"
    /\ \E now \in 0..MaxTs, u \in 0..MaxRand :
         payload_to_show' = build_payload(evt[1], now, u)
    /\ log' = << Call("build_payload", Return(payload_to_show')) >>
    /\ pc' = "called"
    /\ UNCHANGED << DT_API_URL, DT_API_TOKEN, req, dt_connection_status, evt,
                    message, status_code, status_str, ex, response, outcome >>

\* the next code to pass
NextCode ==
    /\ pc = "called"
    /\ evt' \in {Some(c) : c \in BuilderCodes}
    /\ payload_to_show' = None
    /\ log' = << >>
    /\ pc' = "call"
    /\ UNCHANGED << DT_API_URL, DT_API_TOKEN, req, dt_connection_status,
                    message, status_code, status_str, ex, response, outcome >>

NextBuilder ==
    \/ CallBuildPayload
    \/ NextCode

SpecBuilder == InitBuilder /\ [][NextBuilder]_vars

-----------------------------------------------------------------------------
(* Properties *)

\* the Events-API codes of the closed set, and the codes routed elsewhere
ApiCodes == {"resource", "trace", "http", "db", "azure", "error", "warning"}
TelemetryCodes == {"otel_trace", "otel_metric", "sdk_trace"}

NoConnectionMessage ==
    "No se puede generar el evento de API porque no hay conexion con Dynatrace."

\* main has finished handling the request, by returning or by raising
Finished == pc \in {"returned", "raised"}
\* the probe of this request reported reachable / returned not reachable
Probed == \E i \in Calls(log, "check_dynatrace_connection") :
              log[i].result.kind = "return"
Connected == Probed /\ dt_connection_status[1]
\* the configuration the prober rejects without a network call
ConfigMissing ==
    DT_API_URL = "" \/ DT_API_TOKEN = None \/ DT_API_TOKEN = Some("")
\* send_event returned b in this request
SendReturned(b) == \E i \in Calls(log, "send_event") :
                       log[i].result = Return(b)
\* build_payload returned a payload in this request
Built == \E i \in Calls(log, "build_payload") :
             log[i].result.value # None

\* C1: in every request the connectivity probe is performed exactly once,
\* whatever the type and the outcome, and before any call of build_payload.
C1_ProbeOnceBeforeBuild ==
    /\ Count(log, "check_dynatrace_connection") <= 1
    /\ pc \notin {"idle", "probe"} =>
           Count(log, "check_dynatrace_connection") = 1
    /\ \A i \in Calls(log, "build_payload") :
           \E j \in 1..(i - 1) : log[j].call = "check_dynatrace_connection"

C1_Witness ==
    /\ pc = "returned"
    /\ Count(log, "build_payload") = 1
    /\ Count(log, "check_dynatrace_connection") = 1

\* C2 as stated: whenever a code of the closed set is selected and the probe
\* reports not reachable, the response is 500 / error / no-connection message,
\* no payload is built and no delivery is attempted.
C2_Original ==
    (pc = "returned" /\ TruthyStr(evt) /\ evt[1] \in EventTypeCode
        /\ Probed /\ ~ dt_connection_status[1])
    => /\ response[1].status_code = 500
       /\ outcome[1].status = Some("error")
       /\ outcome[1].message = Some(NoConnectionMessage)
       /\ Count(log, "build_payload") = 0
       /\ Count(log, "send_event") = 0

\* C2 amended: whenever an Events-API code (a code of the closed set that
\* starts with neither otel_ nor sdk_) is selected and the probe reports not
\* reachable, the response is 500 / error / no-connection message, no payload
\* is built or shown and no delivery is attempted.
C2_BlockedWhenUnreachable ==
    (pc = "returned" /\ TruthyStr(evt) /\ evt[1] \in EventTypeCode
        /\ ~ startswith(evt[1], "otel_") /\ ~ startswith(evt[1], "sdk_")
        /\ Probed /\ ~ dt_connection_status[1])
    => /\ response[1].status_code = 500
       /\ outcome[1].status = Some("error")
       /\ outcome[1].message = Some(NoConnectionMessage)
       /\ response[1].body.feedback =
              Some([status_class |-> "status-error",
                    message |-> NoConnectionMessage])
       /\ outcome[1].payload = None
       /\ Count(log, "build_payload") = 0
       /\ Count(log, "send_event") = 0
       /\ Count(log, "requests.post") = 0

C2_Witness ==
    /\ pc = "returned"
    /\ evt = Some("resource")
    /\ Probed /\ ~ dt_connection_status[1]
    /\ Count(log, "requests.get") = 1
    /\ response[1].status_code = 500

\* C3: for every non-empty type outside the closed set, with the sink
\* reachable, build_payload returns absent and the response is 500 / error with
\* no payload shown and no delivery attempt.
C3_UnknownCodeIsError ==
    (pc = "returned" /\ TruthyStr(evt) /\ evt[1] \notin EventTypeCode
        /\ Connected)
    => /\ \A now \in 0..MaxTs, u \in 0..MaxRand :
              build_payload(evt[1], now, u) = None
       /\ response[1].status_code = 500
       /\ outcome[1].status = Some("error")
       /\ outcome[1].payload = None
       /\ Count(log, "send_event") = 0

\* C4: for an Events-API code and a reachable sink the response is 200 /
\* success exactly when send_event returned true, and 500 / error when it
\* returned false.
C4_SuccessIffDelivered ==
    (pc = "returned" /\ evt # None /\ evt[1] \in ApiCodes /\ Connected)
    => /\ (response[1].status_code = 200) <=> SendReturned(TRUE)
       /\ (outcome[1].status = Some("success")) <=> SendReturned(TRUE)
       /\ SendReturned(FALSE) =>
              /\ response[1].status_code = 500
              /\ outcome[1].status = Some("error")

C4_Witness ==
    /\ pc = "returned"
    /\ evt = Some("warning")
    /\ SendReturned(FALSE)
    /\ \E i \in Calls(log, "requests.post") : log[i].result = Raise("Timeout")
    /\ response[1].status_code = 500

\* C5: no failure escapes main: a failure raised at any step (the probe
\* included) ends in a response with status 500 whose message embeds the
\* failure's description; main never raises.
C5_NothingEscapesMain ==
    /\ pc # "raised"
    /\ (Finished /\ ex # None) =>
           /\ response # None
           /\ response[1].status_code = 500
           /\ outcome[1].message =
                  Some("Ha ocurrido una excepcion: " \o ex[1])

\* C6: check_dynatrace_connection never raises, whatever the probe request
\* does, and reports reachable only on a 405 response.
C6_ProberTotal ==
    \A i \in Calls(log, "check_dynatrace_connection") :
        /\ log[i].result.kind = "return"
        /\ log[i].result.value[1] \in BOOLEAN
        /\ log[i].result.value[1] =>
               \E j \in Calls(log, "requests.get") :
                   log[j].result = Response(405)

\* C7: with the URL or the token absent or empty the prober returns not
\* reachable without a network call, the request makes no delivery call, and a
\* request without a type still gets the initial page with status 200.
C7_MissingConfig ==
    ConfigMissing =>
        /\ Count(log, "requests.get") = 0
        /\ Count(log, "requests.post") = 0
        /\ Count(log, "send_event") = 0
        /\ \A i \in Calls(log, "check_dynatrace_connection") :
               /\ log[i].result.kind = "return"
               /\ log[i].result.value[1] = FALSE
        /\ (Finished /\ req = None) =>
               /\ pc = "returned"
               /\ response[1].status_code = 200
               /\ outcome[1] = RenderArgs(None, None, None, None)

C7_Witness ==
    /\ ConfigMissing
    /\ DT_API_URL # ""
    /\ pc = "returned"
    /\ req = None
    /\ Count(log, "check_dynatrace_connection") = 1
    /\ response[1].status_code = 200

\* the table of section 4.1: eventType and annotationType of each code
\* (None: the field is absent)
Table41 ==
    [resource |-> <<"RESOURCE_EVENT", None>>,
     trace |-> <<"STATE_EVENT", Some("TRACE")>>,
     http |-> <<"CUSTOM_ANNOTATION", Some("HTTP_CALL")>>,
     db |-> <<"CUSTOM_ANNOTATION", Some("DB_CALL")>>,
     azure |-> <<"CUSTOM_ANNOTATION", Some("AZURE_SERVICE")>>,
     error |-> <<"CUSTOM_ANNOTATION", Some("ERROR")>>,
     warning |-> <<"CUSTOM_ANNOTATION", Some("WARNING")>>]

\* the payload p (Optional) is what section 4.1 asks for the code c
MatchesTable(c, p) ==
    /\ p # None
    /\ c \in DOMAIN Table41
    /\ {"eventType", "timestamp", "source", "detect"} \subseteq DOMAIN p[1]
    /\ p[1].eventType = Table41[c][1]
    /\ IF Table41[c][2] = None
       THEN "annotationType" \notin DOMAIN p[1]
       ELSE /\ "annotationType" \in DOMAIN p[1]
            /\ Some(p[1].annotationType) = Table41[c][2]
    /\ p[1].source = "EventGenerator3000"
    /\ p[1].detect = FALSE
    /\ c = "http" => p[1].customProperties.statusCode \in {200, 400, 500}
    /\ c = "db" => p[1].customProperties.status \in {"SUCCESS", "FAILURE"}
    /\ c = "azure" => p[1].customProperties.status \in {"OK", "ERROR"}

\* C8 as stated: for every code of the closed set, otel_trace, otel_metric and
\* sdk_trace included, build_payload produces a payload that matches the table
\* of section 4.1, has source and detect=false, and a randomized field within
\* its enumerated values.
C8_Original ==
    (pc = "called" /\ evt[1] \in EventTypeCode)
    => MatchesTable(evt[1], payload_to_show)

\* C8 amended: for the seven Events-API codes build_payload produces a
\* payload that matches the table of section 4.1, has source and detect=false
\* and a randomized field within its enumerated values; for otel_trace,
\* otel_metric and sdk_trace it returns an absent result.
C8_PayloadMatchesTable ==
    pc = "called" =>
        /\ evt[1] \in ApiCodes => MatchesTable(evt[1], payload_to_show)
        /\ evt[1] \in TelemetryCodes => payload_to_show = None

C8_Witness ==
    /\ pc = "called"
    /\ evt = Some("http")
    /\ payload_to_show # None
    /\ payload_to_show[1].customProperties.statusCode = 500

\* C9: send_event makes one delivery attempt, returns true exactly when the
\* response status is 200, and returns false (raising nothing) for every other
\* status and every network-level failure.
C9_SendOnceTrueIff200 ==
    /\ Count(log, "requests.post") = Count(log, "send_event")
    /\ \A i \in Calls(log, "send_event") :
           /\ i + 1 \in Calls(log, "requests.post")
           /\ LET post == log[i + 1].result
              IN  /\ post.kind = "response" =>
                         log[i].result = Return(post.status_code = 200)
                  /\ (post.kind = "raise" /\ post.exc \in NetworkFailures) =>
                         log[i].result = Return(FALSE)

C9_Witness ==
    /\ pc = "returned"
    /\ \E i \in Calls(log, "requests.post") : log[i].result = Response(204)
    /\ SendReturned(FALSE)

\* C10: a payload is handed to the renderer exactly when the type starts with
\* neither otel_ nor sdk_, the probe reported reachable, build_payload returned
\* a payload and no exception occurred, whether or not delivery succeeded;
\* delivery is attempted at most once per request and only for such a type,
\* probe result and payload.
C10_PayloadShown ==
    /\ pc = "returned" =>
           /\ (outcome[1].payload # None) <=>
                  /\ TruthyStr(evt)
                  /\ ~ startswith(evt[1], "otel_")
                  /\ ~ startswith(evt[1], "sdk_")
                  /\ Connected
                  /\ Built
                  /\ ex = None
           /\ response[1].body.payload_html = outcome[1].payload
           /\ outcome[1].payload # None => outcome[1].payload = payload_to_show
    /\ Count(log, "send_event") <= 1
    /\ Count(log, "send_event") = 1 <=>
           /\ pc \notin {"idle", "probe", "route", "build", "send"}
           /\ TruthyStr(evt)
           /\ ~ startswith(evt[1], "otel_")
           /\ ~ startswith(evt[1], "sdk_")
           /\ Connected
           /\ Built

C10_Witness ==
    /\ pc = "returned"
    /\ SendReturned(FALSE)
    /\ response[1].status_code = 500
    /\ outcome[1].status = Some("error")
    /\ outcome[1].payload # None
    /\ response[1].body.payload_html = payload_to_show

====
